---- MODULE Spec2Model ----
(***************************************************************************)
(* Ledger consistency engine of banking-ledger-service: the balance store  *)
(* (PostgreSQL, AtomicBalanceUpdate), the ledger store (MongoDB), the      *)
(* transaction service (ProcessTransaction, ProcessTransactionAsync), the  *)
(* HTTP transaction handler and the queue workers.                         *)
(*                                                                         *)
(* Amounts and balances are integers (cents).  A process is either the    *)
(* goroutine of one HTTP request or service call (Clients; it serves that  *)
(* request and ends) or a queue worker (Workers); an action is the code of *)
(* one handler between two accesses to shared state (balance store, ledger *)
(* store, queue).                                                          *)
(***************************************************************************)
EXTENDS Integers, Sequences, FiniteSets, TLC

----------------------------------------------------------------------------
(* Bounds of the model *)

MaxAmount == 2
MaxInit == 1
MaxFaults == 1

AccountIds == {"acc1"}
\* the rows the accounts table can hold: the account above and a second one
AllAccounts == AccountIds \cup {"acc2"}
Clients == {"c1", "c2"}
Workers == {"w1", "w2"}
Procs == Clients \cup Workers

Kinds == {"deposit", "withdraw"}
ReqKinds == Kinds \cup {"transfer"}
\* amounts a request may carry: a negative one, zero and the valid ones
ReqAmounts == (0 - 1)..MaxAmount
InitBalances == 0..MaxInit

NoTxn == 0
\* a transaction id that no ledger record has
UnknownTxn == 0 - 1
\* a delivery: the fields of the TransactionMessage in its body, ok = the body is
\* JSON that json.Unmarshal accepts, lost = the broker has already requeued it
NoMsg == [id |-> NoTxn, acc |-> "", kind |-> "", amt |-> 0, ok |-> TRUE, lost |-> FALSE]
Free == "free"

VARIABLES
    balance,    \* accounts.balance of every row of the accounts table
    created,    \* the account ids that have a row
    opening,    \* history: the balance each account was created with
    rowLock,    \* the holder of the row lock (SELECT ... FOR UPDATE), or Free
    abuLog,     \* history: per account, the <<previous, new>> of each committed AtomicBalanceUpdate
    ledger,     \* the transaction_logs collection, in insertion order; the id is the index
    queue,      \* transaction_queue: the messages ready for delivery
    unacked,    \* per worker, the delivery it has not settled yet
    connected,  \* RabbitMQ.IsConnected()
    asyncMode,  \* TransactionHandler.asyncMode
    cancelled,  \* main's context has been cancelled (the shutdown signal arrived)
    proc,       \* per goroutine: position in the code and its local variables
    faults      \* number of infrastructure faults injected so far (bounded by MaxFaults)

vars == <<balance, created, opening, rowLock, abuLog, ledger, queue, unacked,
          connected, asyncMode, cancelled, proc, faults>>

----------------------------------------------------------------------------
(* Local state of a goroutine *)

IdleProc ==
    [pc |-> "idle", acc |-> "", kind |-> "", amt |-> 0, txn |-> NoTxn,
     phase |-> "fwd", prev |-> 0, new |-> 0, abuPrev |-> 0, abuNew |-> 0,
     seq |-> 0, rbseq |-> 0, bal |-> 0, rb |-> "none", err |-> <<>>, errmsg |-> <<>>,
     result |-> "none", owner |-> ""]

CanFail == faults < MaxFaults

----------------------------------------------------------------------------
(* Balance store: PostgresAccountStorage.AtomicBalanceUpdate *)

NewBalanceNoChange(kind, prev, amt) == prev

NewBalanceFor(kind, prev, amt) ==
    IF kind = "deposit" THEN prev + amt ELSE prev - amt

NeverInsufficient(kind, prev, amt) == FALSE

InsufficientAtBoundary(kind, prev, amt) == kind = "withdraw" /\ prev <= amt

InsufficientFunds(kind, prev, amt) == kind = "withdraw" /\ prev < amt

RowAlwaysAvailable(a) == TRUE

\* SELECT balance ... FOR UPDATE returns only when no other transaction holds the row
RowAvailable(a) == rowLock[a] = Free

----------------------------------------------------------------------------
(* Error values: the text of an error as the sequence of its lower-cased   *)
(* words, so that strings.Contains can be computed on it.                  *)

NoErr == <<>>
ErrTypeInvalid == <<"transaction", "type", "must", "be", "either", "'deposit'", "or", "'withdraw'">>
ErrAmountInvalid == <<"amount", "must", "be", "greater", "than", "0">>
ErrAccountNotFound == <<"account", "not", "found">>
ErrInsufficientFunds == <<"insufficient", "funds", ":", "current", "balance", "requested">>
ErrInvalidType == <<"invalid", "transaction", "type", ":">>
ErrLockAccount == <<"failed", "to", "lock", "account", ":">>
ErrCommit == <<"failed", "to", "commit", "transaction", ":">>
ErrTxnNotFound == <<"failed", "to", "get", "transaction", ":", "transaction", "not", "found">>
ErrTxnFind == <<"failed", "to", "get", "transaction", ":", "failed", "to", "find", "transaction", ":">>
ErrNotPending == <<"transaction", "is", "not", "in", "pending", "state", ":">>
ErrInsert == <<"failed", "to", "insert", "transaction", ":">>
ErrUpdate == <<"failed", "to", "update", "transaction", ":">>

Wrap(prefix, e) == prefix \o <<":">> \o e

\* strings.Contains on word sequences
Contains(s, sub) ==
    \E i \in 0..(Len(s) - Len(sub)) : \A j \in 1..Len(sub) : s[i + j] = sub[j]

BusinessErrors ==
    { <<"insufficient", "funds">>,
      <<"invalid", "transaction", "type">>,
      <<"account", "not", "found">>,
      <<"amount", "must", "be", "greater", "than", "0">>,
      <<"transaction", "is", "not", "in", "pending", "state">> }

isBusinessError(err) == \E busErr \in BusinessErrors : Contains(err, busErr)

AbuErrorOnlyFunds(a, kind, amt) ==
    IF InsufficientFunds(kind, balance[a], amt) THEN ErrInsufficientFunds ELSE NoErr

\* the error AtomicBalanceUpdate returns after its SELECT, NoErr when it goes on to UPDATE
AbuError(a, kind, amt) ==
    IF a \notin created THEN ErrAccountNotFound
    ELSE IF kind = "deposit" THEN NoErr
    ELSE IF kind = "withdraw"
         THEN IF InsufficientFunds(kind, balance[a], amt) THEN ErrInsufficientFunds ELSE NoErr
    ELSE ErrInvalidType

\* the fixed error messages written to a ledger record
MsgQueueUnavailable == <<"queue", "system", "unavailable">>
MsgUpdateFailed == <<"failed", "to", "update", "transaction", "record">>

----------------------------------------------------------------------------
(* Transaction service helpers *)

NoValidation(kind, amt) == NoErr

\* TransactionService.validateTransactionRequest: the error it returns, NoErr when valid
validateTransactionRequest(kind, amt) ==
    IF kind # "deposit" /\ kind # "withdraw" THEN ErrTypeInvalid
    ELSE IF amt <= 0 THEN ErrAmountInvalid
    ELSE NoErr

SameKind(kind) == kind

\* rollbackType of ProcessTransaction and ProcessTransactionAsync
RollbackKind(kind) == IF kind = "withdraw" THEN "deposit" ELSE "withdraw"

\* the kind of the AtomicBalanceUpdate call a goroutine is making
AbuKind(r) == IF r.phase = "rb" THEN RollbackKind(r.kind) ELSE r.kind

TxnRecord(acc, kind, amt, prev, new, status, errmsg) ==
    [acc |-> acc, kind |-> kind, amt |-> amt, prev |-> prev, new |-> new,
     status |-> status, errmsg |-> errmsg]

AbuFailedCompensates(p, e) == [proc[p] EXCEPT !.pc = "abu_lock", !.phase = "rb"]

\* a goroutine after its AtomicBalanceUpdate call returned the error e
AbuFailed(p, e) ==
    LET r == proc[p] IN
    IF r.phase = "call"
    THEN [r EXCEPT !.pc = "done", !.result = "error", !.err = e]
    ELSE
    IF r.phase = "fwd"
    THEN IF p \in Clients
         THEN [r EXCEPT !.pc = "done", !.result = "error",
                        !.err = Wrap(<<"failed", "to", "process", "transaction">>, e)]
         ELSE [r EXCEPT !.pc = "pta_mark_failed", !.errmsg = e,
                        !.err = Wrap(<<"failed", "to", "update", "balance">>, e)]
    ELSE IF p \in Clients
         THEN [r EXCEPT !.pc = "done", !.rb = "failed"]
         ELSE [r EXCEPT !.pc = "pta_mark_failed", !.rb = "failed"]

\* a goroutine after its AtomicBalanceUpdate call returned (prev, new)
AbuSucceeded(p, n) ==
    LET r == proc[p] IN
    IF r.phase = "call"
    THEN [r EXCEPT !.pc = "done", !.result = "completed",
                   !.prev = r.abuPrev, !.new = r.abuNew, !.seq = n]
    ELSE
    IF r.phase = "fwd"
    THEN [r EXCEPT !.pc = IF p \in Clients THEN "pt_create" ELSE "pta_update",
                   !.prev = r.abuPrev, !.new = r.abuNew, !.seq = n]
    ELSE IF p \in Clients
         THEN [r EXCEPT !.pc = "done", !.rb = "ok", !.rbseq = n]
         ELSE [r EXCEPT !.pc = "pta_mark_failed", !.rb = "ok", !.rbseq = n]

----------------------------------------------------------------------------
(* AtomicBalanceUpdate, in two steps: BEGIN and SELECT ... FOR UPDATE, then *)
(* UPDATE and COMMIT.  An uncommitted UPDATE is invisible to other          *)
(* transactions, so the write takes effect at the commit.                   *)

AbuLock(p) ==
    /\ proc[p].pc = "abu_lock"
    /\ LET r == proc[p]
           a == r.acc
           k == AbuKind(r)
       IN \/ \* BeginTx or the SELECT fails
             /\ CanFail
             /\ faults' = faults + 1
             /\ proc' = [proc EXCEPT ![p] = AbuFailed(p, ErrLockAccount)]
             /\ UNCHANGED rowLock
          \/ /\ a \in created => RowAvailable(a)
             /\ IF AbuError(a, k, r.amt) # NoErr
                THEN /\ proc' = [proc EXCEPT ![p] = AbuFailed(p, AbuError(a, k, r.amt))]
                     /\ UNCHANGED rowLock
                ELSE /\ proc' = [proc EXCEPT ![p] =
                            [r EXCEPT !.pc = "abu_commit", !.abuPrev = balance[a],
                                      !.abuNew = NewBalanceFor(k, balance[a], r.amt)]]
                     /\ rowLock' = [rowLock EXCEPT ![a] = p]
             /\ UNCHANGED faults
    /\ UNCHANGED <<balance, created, opening, abuLog, ledger, queue, unacked,
                   connected, asyncMode, cancelled>>

AbuCommit(p) ==
    /\ proc[p].pc = "abu_commit"
    /\ LET r == proc[p]
           a == r.acc
       IN \/ /\ balance' = [balance EXCEPT ![a] = r.abuNew]
             /\ abuLog' = [abuLog EXCEPT ![a] = Append(@, <<r.abuPrev, r.abuNew>>)]
             /\ proc' = [proc EXCEPT ![p] = AbuSucceeded(p, Len(abuLog[a]) + 1)]
             /\ UNCHANGED faults
          \/ \* the UPDATE or the COMMIT fails: the deferred Rollback undoes the transaction
             /\ CanFail
             /\ faults' = faults + 1
             /\ proc' = [proc EXCEPT ![p] = AbuFailed(p, ErrCommit)]
             /\ UNCHANGED <<balance, abuLog>>
    /\ rowLock' = [rowLock EXCEPT ![proc[p].acc] = Free]
    /\ UNCHANGED <<created, opening, ledger, queue, unacked, connected, asyncMode, cancelled>>

\* a caller of the storage layer invokes AtomicBalanceUpdate itself, with arguments
\* no service has validated
CallAtomicBalanceUpdate(c, a, kind, amt) ==
    /\ proc[c].pc = "idle"
    /\ proc' = [proc EXCEPT ![c] =
            [IdleProc EXCEPT !.pc = "abu_lock", !.phase = "call", !.acc = a,
                             !.kind = kind, !.amt = amt]]
    /\ UNCHANGED <<balance, created, opening, rowLock, abuLog, ledger, queue, unacked,
                   connected, asyncMode, cancelled, faults>>

----------------------------------------------------------------------------
(* Ledger store: MongoTransactionStorage *)

\* UpdateTransaction: $set of the four fields on the record with that transaction id
UpdateEveryTransaction(l, txn, prev, new, status, errmsg) ==
    [t \in DOMAIN l |-> [l[t] EXCEPT !.prev = prev, !.new = new, !.status = status,
                                     !.errmsg = errmsg]]

UpdateTransaction(l, txn, prev, new, status, errmsg) ==
    [l EXCEPT ![txn] = [@ EXCEPT !.prev = prev, !.new = new,
                                 !.status = status, !.errmsg = errmsg]]

\* UpdateTransactionStatusWithError: $set of status and error message
UpdateTransactionStatusWithError(l, txn, status, errmsg) ==
    [l EXCEPT ![txn] = [@ EXCEPT !.status = status, !.errmsg = errmsg]]

----------------------------------------------------------------------------
(* Account service *)

CreateAccount(a, init) ==
    /\ a \notin created
    /\ init >= 0
    /\ created' = created \cup {a}
    /\ balance' = [balance EXCEPT ![a] = init]
    /\ opening' = [opening EXCEPT ![a] = init]
    /\ UNCHANGED <<rowLock, abuLog, ledger, queue, unacked, connected, asyncMode, cancelled,
                   proc, faults>>

\* the owner names of a CreateAccountRequest: none, or some name
OwnerNames == {"", "alice"}

ErrOwnerRequired == <<"owner", "name", "is", "required">>
ErrNegativeInitial == <<"initial", "balance", "cannot", "be", "negative">>
ErrCreateAccount == <<"failed", "to", "create", "account", ":", "storage", "error">>

CreateAccountNoCheck(owner, init) == NoErr

\* AccountService.CreateAccount: the validation of the request
CreateAccountError(owner, init) ==
    IF owner = "" THEN ErrOwnerRequired
    ELSE IF init < 0 THEN ErrNegativeInitial
    ELSE NoErr

\* a caller invokes AccountService.CreateAccount with any request; a is the fresh
\* id NewAccountID returns
CallCreateAccount(c, a, owner, init) ==
    /\ proc[c].pc = "idle"
    /\ a \notin created
    /\ LET r == [IdleProc EXCEPT !.pc = "done", !.phase = "create", !.owner = owner,
                                 !.amt = init]
       IN IF CreateAccountError(owner, init) # NoErr
          THEN /\ proc' = [proc EXCEPT ![c] =
                       [r EXCEPT !.result = "rejected",
                                 !.err = CreateAccountError(owner, init)]]
               /\ UNCHANGED <<balance, created, opening, faults>>
          ELSE \/ /\ created' = created \cup {a}
                  /\ balance' = [balance EXCEPT ![a] = init]
                  /\ opening' = [opening EXCEPT ![a] = init]
                  /\ proc' = [proc EXCEPT ![c] = [r EXCEPT !.result = "created", !.acc = a]]
                  /\ UNCHANGED faults
               \/ \* storage.CreateAccount fails
                  /\ CanFail
                  /\ faults' = faults + 1
                  /\ proc' = [proc EXCEPT ![c] =
                          [r EXCEPT !.result = "error", !.err = ErrCreateAccount]]
                  /\ UNCHANGED <<balance, created, opening>>
    /\ UNCHANGED <<rowLock, abuLog, ledger, queue, unacked, connected, asyncMode,
                   cancelled>>

----------------------------------------------------------------------------
(* Synchronous path: TransactionService.ProcessTransaction *)

\* the goroutine r entering ProcessTransaction(acc, kind, amt): validation, then
\* the call of AtomicBalanceUpdate
EnterProcessTransaction(r, acc, kind, amt) ==
    IF validateTransactionRequest(kind, amt) # NoErr
    THEN [r EXCEPT !.pc = "done", !.acc = acc, !.kind = kind, !.amt = amt,
                   !.result = "error", !.err = validateTransactionRequest(kind, amt)]
    ELSE [r EXCEPT !.pc = "abu_lock", !.phase = "fwd", !.acc = acc, !.kind = kind,
                   !.amt = amt]

StaleCompletedRecord(r) ==
    TxnRecord(r.acc, r.kind, r.amt, r.prev, r.prev, "completed", NoErr)

CompletedAsPending(r) ==
    TxnRecord(r.acc, r.kind, r.amt, r.prev, r.new, "pending", NoErr)

\* the record ProcessTransaction builds after the balance update
CompletedRecord(r) ==
    TxnRecord(r.acc, r.kind, r.amt, r.prev, r.new, "completed", NoErr)

\* a caller of the service method itself (the unit and integration tests)
CallProcessTransaction(c, a, kind, amt) ==
    /\ proc[c].pc = "idle"
    /\ proc' = [proc EXCEPT ![c] = EnterProcessTransaction(IdleProc, a, kind, amt)]
    /\ UNCHANGED <<balance, created, opening, rowLock, abuLog, ledger, queue, unacked,
                   connected, asyncMode, cancelled, faults>>

\* CreateTransaction of the completed record; on failure the rollback call
PtCreate(c) ==
    /\ proc[c].pc = "pt_create"
    /\ LET r == proc[c] IN
       \/ /\ ledger' = Append(ledger, CompletedRecord(r))
          /\ proc' = [proc EXCEPT ![c] =
                  [r EXCEPT !.pc = "done", !.result = "completed", !.txn = Len(ledger) + 1]]
          /\ UNCHANGED faults
       \/ /\ CanFail
          /\ faults' = faults + 1
          /\ proc' = [proc EXCEPT ![c] =
                  [r EXCEPT !.pc = "abu_lock", !.phase = "rb", !.result = "error",
                            !.err = Wrap(<<"failed", "to", "save", "transaction">>, ErrInsert)]]
          /\ UNCHANGED ledger
    /\ UNCHANGED <<balance, created, opening, rowLock, abuLog, queue, unacked,
                   connected, asyncMode, cancelled>>

----------------------------------------------------------------------------
(* HTTP handler: TransactionHandler.ProcessTransaction and its async path *)

\* handlers.validateTransactionRequest: type and amount of the request body
HandlerAccepts(kind, amt) == kind \in Kinds /\ amt > 0

AsyncModeOnly == asyncMode

\* the mode test of TransactionHandler.ProcessTransaction
UseAsync == asyncMode /\ connected

HandlerProcessTransaction(c, a, kind, amt) ==
    /\ proc[c].pc = "idle"
    /\ proc' = [proc EXCEPT ![c] =
            IF ~HandlerAccepts(kind, amt)
            THEN [IdleProc EXCEPT !.pc = "done", !.acc = a, !.kind = kind, !.amt = amt,
                                  !.result = "rejected"]
            ELSE IF UseAsync
            THEN [IdleProc EXCEPT !.pc = "h_get_account", !.acc = a, !.kind = kind,
                                  !.amt = amt]
            ELSE EnterProcessTransaction(IdleProc, a, kind, amt)]
    /\ UNCHANGED <<balance, created, opening, rowLock, abuLog, ledger, queue, unacked,
                   connected, asyncMode, cancelled, faults>>

NoPreValidation(a, kind, amt) == NoErr

\* processTransactionAsync: the reply of the checks made before queueing, NoErr
\* when the request goes on
PreValidationError(a, kind, amt) ==
    IF a \notin created THEN ErrAccountNotFound
    ELSE IF kind = "withdraw" /\ balance[a] < amt THEN <<"insufficient", "funds">>
    ELSE NoErr

\* processTransactionAsync: GetAccountByID and the pre-validation of a withdraw
HGetAccount(c) ==
    /\ proc[c].pc = "h_get_account"
    /\ LET r == proc[c] IN
       proc' = [proc EXCEPT ![c] =
            IF PreValidationError(r.acc, r.kind, r.amt) # NoErr
            THEN [r EXCEPT !.pc = "done", !.result = "rejected",
                           !.err = PreValidationError(r.acc, r.kind, r.amt)]
            ELSE [r EXCEPT !.pc = "h_create_pending", !.bal = balance[r.acc]]]
    /\ UNCHANGED <<balance, created, opening, rowLock, abuLog, ledger, queue, unacked,
                   connected, asyncMode, cancelled, faults>>

\* the record processTransactionAsync stores before it publishes
PendingRecord(r) ==
    TxnRecord(r.acc, r.kind, r.amt, r.bal, 0, "pending", NoErr)

\* processTransactionAsync: CreatePendingTransaction
HCreatePending(c) ==
    /\ proc[c].pc = "h_create_pending"
    /\ LET r == proc[c] IN
       \/ /\ ledger' = Append(ledger, PendingRecord(r))
          /\ proc' = [proc EXCEPT ![c] = [r EXCEPT !.pc = "h_publish", !.txn = Len(ledger) + 1]]
          /\ UNCHANGED faults
       \/ /\ CanFail
          /\ faults' = faults + 1
          /\ proc' = [proc EXCEPT ![c] =
                  [r EXCEPT !.pc = "done", !.result = "error", !.err = ErrInsert]]
          /\ UNCHANGED ledger
    /\ UNCHANGED <<balance, created, opening, rowLock, abuLog, queue, unacked,
                   connected, asyncMode, cancelled>>

\* the message processTransactionAsync publishes for the goroutine r
IntentOf(r) ==
    [id |-> r.txn, acc |-> r.acc, kind |-> r.kind, amt |-> r.amt, ok |-> TRUE, lost |-> FALSE]

PublishAlwaysSucceeds == TRUE

\* PublishTransaction returns nil: channel.Publish fails on a closed connection
PublishSucceeds == connected

\* processTransactionAsync: PublishTransaction, then the 202 reply or the fallback
HPublish(c) ==
    /\ proc[c].pc = "h_publish"
    /\ LET r == proc[c] IN
       IF PublishSucceeds
       THEN /\ queue' = Append(queue, IntentOf(r))
            /\ proc' = [proc EXCEPT ![c] = [r EXCEPT !.pc = "done", !.result = "pending"]]
       ELSE /\ proc' = [proc EXCEPT ![c] = [r EXCEPT !.pc = "h_mark_failed"]]
            /\ UNCHANGED queue
    /\ UNCHANGED <<balance, created, opening, rowLock, abuLog, ledger, unacked,
                   connected, asyncMode, cancelled, faults>>

\* processTransactionAsync after a failed publish: the record is marked failed (the
\* result of that write is ignored) and the request is processed synchronously
HMarkFailed(c) ==
    /\ proc[c].pc = "h_mark_failed"
    /\ LET r == proc[c] IN
       /\ proc' = [proc EXCEPT ![c] =
               EnterProcessTransaction([r EXCEPT !.txn = NoTxn], r.acc, r.kind, r.amt)]
       /\ \/ /\ ledger' = UpdateTransactionStatusWithError(ledger, r.txn, "failed",
                                                           MsgQueueUnavailable)
             /\ UNCHANGED faults
          \/ /\ CanFail
             /\ faults' = faults + 1
             /\ UNCHANGED ledger
    /\ UNCHANGED <<balance, created, opening, rowLock, abuLog, queue, unacked,
                   connected, asyncMode, cancelled>>

----------------------------------------------------------------------------
(* Queue and workers: TransactionWorker.Start, processMessage,             *)
(* TransactionService.ProcessTransactionAsync                              *)

AlwaysDecodes(msg) == TRUE

\* processMessage: json.Unmarshal of the delivery's body succeeds
Decodes(msg) == msg.ok

PrefetchUnlimited(w) == TRUE

\* Qos(1, 0, false): the broker sends a consumer a delivery only while that consumer
\* has no unsettled one
PrefetchAllows(w) == unacked[w] = NoMsg

\* Start and the head of processMessage: the next delivery (prefetch 1 keeps one
\* unsettled delivery per consumer); a body that does not decode is rejected with
\* Nack(false, false) and dropped, any other goes to ProcessTransactionAsync
Deliver(w) ==
    /\ asyncMode /\ connected
    /\ proc[w].pc = "idle"
    /\ PrefetchAllows(w)
    /\ queue # <<>>
    /\ queue' = Tail(queue)
    /\ IF Decodes(Head(queue))
       THEN /\ unacked' = [unacked EXCEPT ![w] = Head(queue)]
            /\ proc' = [proc EXCEPT ![w] =
                    [IdleProc EXCEPT !.pc = "pta_get", !.txn = Head(queue).id,
                                     !.kind = Head(queue).kind, !.amt = Head(queue).amt]]
       ELSE UNCHANGED <<unacked, proc>>
    /\ UNCHANGED <<balance, created, opening, rowLock, abuLog, ledger,
                   connected, asyncMode, cancelled, faults>>

AlwaysPending(status) == TRUE

\* the idempotency guard of ProcessTransactionAsync
IsPending(status) == status = "pending"

\* ProcessTransactionAsync: GetTransactionByID, the pending guard and the validation
PtaGet(w) ==
    /\ proc[w].pc = "pta_get"
    /\ LET r == proc[w] IN
       \/ /\ UNCHANGED faults
          /\ proc' = [proc EXCEPT ![w] =
                IF r.txn \notin DOMAIN ledger
                THEN [r EXCEPT !.pc = "w_settle", !.result = "error",
                       !.err = Wrap(<<"pending", "transaction", "not", "found">>, ErrTxnNotFound)]
                ELSE IF ~IsPending(ledger[r.txn].status)
                THEN [r EXCEPT !.pc = "w_settle", !.result = "error", !.err = ErrNotPending]
                ELSE IF validateTransactionRequest(r.kind, r.amt) # NoErr
                THEN [r EXCEPT !.pc = "pta_mark_failed", !.result = "error",
                               !.acc = ledger[r.txn].acc,
                               !.err = validateTransactionRequest(r.kind, r.amt),
                               !.errmsg = validateTransactionRequest(r.kind, r.amt)]
                ELSE [r EXCEPT !.pc = "abu_lock", !.phase = "fwd",
                               !.acc = ledger[r.txn].acc]]
       \/ /\ CanFail
          /\ faults' = faults + 1
          /\ proc' = [proc EXCEPT ![w] =
                [r EXCEPT !.pc = "w_settle", !.result = "error",
                          !.err = Wrap(<<"pending", "transaction", "not", "found">>, ErrTxnFind)]]
    /\ UNCHANGED <<balance, created, opening, rowLock, abuLog, ledger, queue, unacked,
                   connected, asyncMode, cancelled>>

\* ProcessTransactionAsync: UpdateTransaction to completed; on failure the rollback call
PtaUpdate(w) ==
    /\ proc[w].pc = "pta_update"
    /\ LET r == proc[w] IN
       \/ /\ ledger' = UpdateTransaction(ledger, r.txn, r.prev, r.new, "completed", NoErr)
          /\ proc' = [proc EXCEPT ![w] = [r EXCEPT !.pc = "w_settle", !.result = "completed"]]
          /\ UNCHANGED faults
       \/ /\ CanFail
          /\ faults' = faults + 1
          /\ proc' = [proc EXCEPT ![w] =
                  [r EXCEPT !.pc = "abu_lock", !.phase = "rb", !.result = "error",
                            !.errmsg = MsgUpdateFailed,
                            !.err = Wrap(<<"failed", "to", "update", "transaction">>, ErrUpdate)]]
          /\ UNCHANGED ledger
    /\ UNCHANGED <<balance, created, opening, rowLock, abuLog, queue, unacked,
                   connected, asyncMode, cancelled>>

\* ProcessTransactionAsync: UpdateTransactionStatusWithError(failed), result ignored
PtaMarkFailed(w) ==
    /\ proc[w].pc = "pta_mark_failed"
    /\ LET r == proc[w] IN
       /\ proc' = [proc EXCEPT ![w] = [r EXCEPT !.pc = "w_settle", !.result = "error"]]
       /\ \/ /\ ledger' = UpdateTransactionStatusWithError(ledger, r.txn, "failed", r.errmsg)
             /\ UNCHANGED faults
          \/ /\ CanFail
             /\ faults' = faults + 1
             /\ UNCHANGED ledger
    /\ UNCHANGED <<balance, created, opening, rowLock, abuLog, queue, unacked,
                   connected, asyncMode, cancelled>>

NeverRequeues(err) == FALSE

\* ProcessTransactionAsync: the UpdateTransactionStatusWithError(failed) call fails
\* on top of the bounded infrastructure faults; its result is ignored
StatusWriteLost(w) ==
    /\ proc[w].pc = "pta_mark_failed"
    /\ proc' = [proc EXCEPT ![w] = [proc[w] EXCEPT !.pc = "w_settle", !.result = "error"]]
    /\ UNCHANGED <<balance, created, opening, rowLock, abuLog, ledger, queue, unacked,
                   connected, asyncMode, cancelled, faults>>

\* processMessage after ProcessTransactionAsync returned: Ack, or Nack with requeue
Requeues(err) == err # NoErr /\ ~isBusinessError(err)

LeftUnsettled(m) == m

\* the consumer's unsettled delivery after delivery.Ack or delivery.Nack: none
Settled(m) == NoMsg

Settle(w) ==
    /\ proc[w].pc = "w_settle"
    /\ proc' = [proc EXCEPT ![w] = IdleProc]
    /\ IF unacked[w].lost
       THEN UNCHANGED <<queue, unacked>>
       ELSE /\ unacked' = [unacked EXCEPT ![w] = Settled(unacked[w])]
            /\ queue' = IF Requeues(proc[w].err) THEN <<unacked[w]>> \o queue ELSE queue
    /\ UNCHANGED <<balance, created, opening, rowLock, abuLog, ledger,
                   connected, asyncMode, cancelled, faults>>

\* the connection to RabbitMQ closes: the broker requeues every unsettled delivery
DropConnection ==
    /\ connected
    /\ connected' = FALSE
    /\ LET W == {w \in Workers : unacked[w] # NoMsg /\ ~unacked[w].lost}
           RECURSIVE Back(_)
           Back(S) == IF S = {} THEN <<>>
                      ELSE LET w == CHOOSE x \in S : TRUE
                           IN <<unacked[w]>> \o Back(S \ {w})
       IN /\ queue' = Back(W) \o queue
          /\ unacked' = [w \in Workers |->
                 IF w \in W THEN [unacked[w] EXCEPT !.lost = TRUE] ELSE unacked[w]]
    /\ UNCHANGED <<balance, created, opening, rowLock, abuLog, ledger, asyncMode, cancelled,
                   proc>>

\* the loss of the connection as one of the bounded infrastructure faults
Disconnect ==
    /\ CanFail
    /\ faults' = faults + 1
    /\ DropConnection

\* the loss of the connection on top of the bounded infrastructure faults
ConnectionLost ==
    /\ DropConnection
    /\ UNCHANGED faults

\* the broker redelivers a delivery a worker is still processing (the consumer's
\* channel closed, at-least-once delivery): the worker's later Ack or Nack is void
Redeliver(w) ==
    /\ asyncMode /\ connected
    /\ unacked[w] # NoMsg
    /\ ~unacked[w].lost
    /\ CanFail
    /\ faults' = faults + 1
    /\ queue' = <<unacked[w]>> \o queue
    /\ unacked' = [unacked EXCEPT ![w] = [@ EXCEPT !.lost = TRUE]]
    /\ UNCHANGED <<balance, created, opening, rowLock, abuLog, ledger, connected,
                   asyncMode, cancelled, proc>>

\* the messages another publisher can put on transaction_queue: a body that is not
\* a TransactionMessage, a TransactionMessage naming an unknown transaction id, or
\* one naming a known transaction id with any type and a zero or positive amount
ForeignAmounts == {0, MaxAmount - 1}

ForeignMessages ==
    { [id |-> NoTxn, acc |-> "", kind |-> "", amt |-> 0, ok |-> FALSE, lost |-> FALSE] }
    \cup { [id |-> UnknownTxn, acc |-> a, kind |-> "deposit", amt |-> MaxAmount - 1,
            ok |-> TRUE, lost |-> FALSE] : a \in AccountIds }
    \cup { [id |-> t, acc |-> ledger[t].acc, kind |-> k, amt |-> m, ok |-> TRUE,
            lost |-> FALSE] : t \in DOMAIN ledger, k \in ReqKinds, m \in ForeignAmounts }

\* a message reaches transaction_queue that processTransactionAsync did not publish;
\* a run has at most one such message and then no infrastructure fault besides the
\* loss of the connection
ForeignPublish(msg) ==
    /\ asyncMode /\ connected
    /\ faults = 0
    /\ faults' = MaxFaults
    /\ queue' = Append(queue, msg)
    /\ UNCHANGED <<balance, created, opening, rowLock, abuLog, ledger, unacked,
                   connected, asyncMode, cancelled, proc>>

----------------------------------------------------------------------------
(* Specifications *)

----------------------------------------------------------------------------
(* The worker pool in two steps per delivery, and its shutdown: the broker  *)
(* sends a delivery to a consumer (ConsumeTransactions, Qos), the worker's  *)
(* select in Start receives it or sees the cancelled context, and main      *)
(* exits after the workers stopped or the grace period ran out.             *)

\* the broker sends the head of the queue to consumer w; the consumer stays
\* registered after its worker returned from Start
BrokerDeliver(w) ==
    /\ asyncMode /\ connected
    /\ PrefetchAllows(w)
    /\ queue # <<>>
    /\ queue' = Tail(queue)
    /\ unacked' = [unacked EXCEPT ![w] = Head(queue)]
    /\ UNCHANGED <<balance, created, opening, rowLock, abuLog, ledger,
                   connected, asyncMode, cancelled, proc, faults>>

\* Start's select takes the delivery branch (whether or not the context is
\* cancelled: select chooses among the ready cases), then processMessage decodes
Receive(w) ==
    /\ proc[w].pc = "idle"
    /\ unacked[w] # NoMsg /\ ~unacked[w].lost
    /\ IF Decodes(unacked[w])
       THEN /\ proc' = [proc EXCEPT ![w] =
                    [IdleProc EXCEPT !.pc = "pta_get", !.txn = unacked[w].id,
                                     !.kind = unacked[w].kind, !.amt = unacked[w].amt]]
            /\ UNCHANGED unacked
       ELSE /\ unacked' = [unacked EXCEPT ![w] = NoMsg]
            /\ UNCHANGED proc
    /\ UNCHANGED <<balance, created, opening, rowLock, abuLog, ledger, queue,
                   connected, asyncMode, cancelled, faults>>

\* the shutdown signal: main calls cancel()
Cancel ==
    /\ ~cancelled
    /\ cancelled' = TRUE
    /\ UNCHANGED <<balance, created, opening, rowLock, abuLog, ledger, queue, unacked,
                   connected, asyncMode, proc, faults>>

\* Start's select takes the ctx.Done() branch and the worker returns
Stop(w) ==
    /\ asyncMode /\ cancelled
    /\ proc[w].pc = "idle"
    /\ proc' = [proc EXCEPT ![w] = [IdleProc EXCEPT !.pc = "stopped"]]
    /\ UNCHANGED <<balance, created, opening, rowLock, abuLog, ledger, queue, unacked,
                   connected, asyncMode, cancelled, faults>>

\* the unsettled deliveries of the workers in S, which the broker requeues
RECURSIVE Unsettled(_)
Unsettled(S) ==
    IF S = {} THEN <<>>
    ELSE LET w == CHOOSE x \in S : TRUE
         IN <<unacked[w]>> \o Unsettled(S \ {w})

\* os.Exit(0) once the workers stopped or the grace period ran out: every goroutine
\* ends where it is, the database rolls back the open transactions and the broker
\* requeues the unsettled deliveries of the closed connection
Exit ==
    /\ cancelled
    /\ \E p \in Procs : proc[p].pc # "exited"
    /\ proc' = [p \in Procs |-> [proc[p] EXCEPT !.pc = "exited"]]
    /\ rowLock' = [a \in AllAccounts |-> Free]
    /\ connected' = FALSE
    /\ queue' = Unsettled({w \in Workers : unacked[w] # NoMsg /\ ~unacked[w].lost}) \o queue
    /\ unacked' = [w \in Workers |-> NoMsg]
    /\ UNCHANGED <<balance, created, opening, abuLog, ledger, asyncMode, cancelled,
                   faults>>

\* the process dies (a crash, or os.Exit(0) when the grace period runs out) and
\* is started again: a request in progress is abandoned, the database rolls back
\* the open transactions, the broker requeues the unsettled deliveries and the
\* new workers start consuming
Crash ==
    /\ CanFail
    /\ faults' = faults + 1
    /\ proc' = [p \in Procs |->
            IF p \in Workers THEN IdleProc
            ELSE IF proc[p].pc \in {"idle", "done"} THEN proc[p]
            ELSE [proc[p] EXCEPT !.pc = "done", !.result = "aborted"]]
    /\ rowLock' = [a \in AllAccounts |-> Free]
    /\ queue' = Unsettled({w \in Workers : unacked[w] # NoMsg /\ ~unacked[w].lost}) \o queue
    /\ unacked' = [w \in Workers |-> NoMsg]
    /\ UNCHANGED <<balance, created, opening, abuLog, ledger, connected, asyncMode,
                   cancelled>>

----------------------------------------------------------------------------
Init ==
    /\ balance = [a \in AllAccounts |-> 0]
    /\ created = {}
    /\ opening = [a \in AllAccounts |-> 0]
    /\ rowLock = [a \in AllAccounts |-> Free]
    /\ abuLog = [a \in AllAccounts |-> <<>>]
    /\ ledger = <<>>
    /\ queue = <<>>
    /\ unacked = [w \in Workers |-> NoMsg]
    /\ asyncMode \in BOOLEAN
    /\ connected = asyncMode
    /\ cancelled = FALSE
    /\ proc = [p \in Procs |-> IdleProc]
    /\ faults = 0

Next ==
    \/ \E a \in AccountIds, init \in InitBalances : CreateAccount(a, init)
    \/ \E c \in Clients, a \in AccountIds, kind \in ReqKinds, amt \in ReqAmounts :
          HandlerProcessTransaction(c, a, kind, amt)
    \/ \E c \in Clients, a \in AccountIds, kind \in ReqKinds, amt \in ReqAmounts :
          CallProcessTransaction(c, a, kind, amt)
    \/ \E c \in Clients : HGetAccount(c)
    \/ \E c \in Clients : HCreatePending(c)
    \/ \E c \in Clients : HPublish(c)
    \/ \E c \in Clients : HMarkFailed(c)
    \/ \E c \in Clients : PtCreate(c)
    \/ \E p \in Procs : AbuLock(p)
    \/ \E p \in Procs : AbuCommit(p)
    \/ \E w \in Workers : Deliver(w)
    \/ \E w \in Workers : PtaGet(w)
    \/ \E w \in Workers : PtaUpdate(w)
    \/ \E w \in Workers : PtaMarkFailed(w)
    \/ \E w \in Workers : Settle(w)
    \/ Disconnect

Spec == Init /\ [][Next]_vars

NextDup ==
    \/ Next
    \/ \E w \in Workers : Redeliver(w)

\* at-least-once delivery: a delivery may reach a second consumer while the first
\* is still processing it
SpecDup == Init /\ [][NextDup]_vars

\* the deployed service: valid requests arrive through the HTTP handler
NextService ==
    \/ \E a \in AccountIds, init \in InitBalances : CreateAccount(a, init)
    \/ \E c \in Clients, a \in AccountIds, kind \in Kinds, amt \in 1..MaxAmount :
          HandlerProcessTransaction(c, a, kind, amt)
    \/ \E c \in Clients : HGetAccount(c)
    \/ \E c \in Clients : HCreatePending(c)
    \/ \E c \in Clients : HPublish(c)
    \/ \E c \in Clients : HMarkFailed(c)
    \/ \E c \in Clients : PtCreate(c)
    \/ \E p \in Procs : AbuLock(p)
    \/ \E p \in Procs : AbuCommit(p)
    \/ \E w \in Workers : Deliver(w)
    \/ \E w \in Workers : PtaGet(w)
    \/ \E w \in Workers : PtaUpdate(w)
    \/ \E w \in Workers : PtaMarkFailed(w)
    \/ \E w \in Workers : Settle(w)

\* the deployed service with a queue that is open to other publishers
NextOpen ==
    \/ NextService
    \/ Disconnect
    \/ \E msg \in ForeignMessages : ForeignPublish(msg)

SpecOpen == Init /\ [][NextOpen]_vars

\* the deployed service during an outage: the connection to the broker may be lost
\* at any time, on top of the bounded infrastructure faults
NextOutage ==
    \/ NextService
    \/ ConnectionLost

SpecOutage == Init /\ [][NextOutage]_vars

\* the deployed service with a queue that is open to other publishers and a ledger
\* store whose status writes may fail at any time
NextLossy ==
    \/ NextService
    \/ Disconnect
    \/ \E w \in Workers : StatusWriteLost(w)
    \/ \E msg \in ForeignMessages : ForeignPublish(msg)

SpecLossy == Init /\ [][NextLossy]_vars

\* the account service and the storage layer on their own: CreateAccount and
\* AtomicBalanceUpdate are called with any arguments
NextStore ==
    \/ \E a \in AccountIds, init \in InitBalances : CreateAccount(a, init)
    \/ \E c \in Clients, a \in AccountIds, owner \in OwnerNames, init \in ReqAmounts :
          CallCreateAccount(c, a, owner, init)
    \/ \E c \in Clients, a \in AccountIds, kind \in ReqKinds, amt \in ReqAmounts :
          CallAtomicBalanceUpdate(c, a, kind, amt)
    \/ \E p \in Procs : AbuLock(p)
    \/ \E p \in Procs : AbuCommit(p)

SpecStore == Init /\ [][NextStore]_vars

\* the deployed service with the broker's and the workers' steps apart, until it
\* is shut down; the account is opened with the largest opening balance and the
\* requests ask for the smallest or the largest amount
NextPool ==
    \/ \E a \in AccountIds : CreateAccount(a, MaxInit)
    \/ \E c \in Clients, a \in AccountIds, kind \in Kinds, amt \in {1, MaxAmount} :
          HandlerProcessTransaction(c, a, kind, amt)
    \/ \E c \in Clients : HGetAccount(c)
    \/ \E c \in Clients : HCreatePending(c)
    \/ \E c \in Clients : HPublish(c)
    \/ \E c \in Clients : HMarkFailed(c)
    \/ \E c \in Clients : PtCreate(c)
    \/ \E p \in Procs : AbuLock(p)
    \/ \E p \in Procs : AbuCommit(p)
    \/ \E w \in Workers : BrokerDeliver(w)
    \/ \E w \in Workers : Receive(w)
    \/ \E w \in Workers : PtaGet(w)
    \/ \E w \in Workers : PtaUpdate(w)
    \/ \E w \in Workers : PtaMarkFailed(w)
    \/ \E w \in Workers : Settle(w)
    \/ Disconnect
    \/ Cancel
    \/ \E w \in Workers : Stop(w)
    \/ Exit

SpecPool == Init /\ [][NextPool]_vars

\* every step worker w can take: its receive loop and ProcessTransactionAsync
WorkerStep(w) ==
    \/ Deliver(w)
    \/ PtaGet(w)
    \/ AbuLock(w)
    \/ AbuCommit(w)
    \/ PtaUpdate(w)
    \/ PtaMarkFailed(w)
    \/ Settle(w)

\* the deployed service while the connection to the broker stays up (so that no
\* publish fails)
NextLive ==
    \/ \E a \in AccountIds, init \in InitBalances : CreateAccount(a, init)
    \/ \E c \in Clients, a \in AccountIds, kind \in Kinds, amt \in 1..MaxAmount :
          HandlerProcessTransaction(c, a, kind, amt)
    \/ \E c \in Clients : HGetAccount(c)
    \/ \E c \in Clients : HCreatePending(c)
    \/ \E c \in Clients : HPublish(c)
    \/ \E c \in Clients : PtCreate(c)
    \/ \E c \in Clients : AbuLock(c)
    \/ \E c \in Clients : AbuCommit(c)
    \/ \E w \in Workers : WorkerStep(w)

\* the workers are goroutines that run until the process exits (main starts them
\* and Start loops forever), the stores answer after the bounded faults: every
\* worker that can take a step eventually takes one
SpecLive == Init /\ [][NextLive]_vars /\ \A w \in Workers : WF_vars(WorkerStep(w))

\* the deployed service with crashes and restarts of its process
NextCrash ==
    \/ NextLive
    \/ Crash

SpecCrash == Init /\ [][NextCrash]_vars

\* the deployed service with two accounts, each opened with the largest opening
\* balance, and requests for the largest amount
NextTwo ==
    \/ \E a \in AllAccounts : CreateAccount(a, MaxInit)
    \/ \E c \in Clients, a \in AllAccounts, kind \in Kinds :
          HandlerProcessTransaction(c, a, kind, MaxAmount)
    \/ \E c \in Clients : HGetAccount(c)
    \/ \E c \in Clients : HCreatePending(c)
    \/ \E c \in Clients : HPublish(c)
    \/ \E c \in Clients : PtCreate(c)
    \/ \E c \in Clients : AbuLock(c)
    \/ \E c \in Clients : AbuCommit(c)
    \/ \E w \in Workers : WorkerStep(w)

SpecTwo == Init /\ [][NextTwo]_vars

\* the same with a queue that is open to other publishers
NextLiveOpen ==
    \/ NextLive
    \/ \E msg \in ForeignMessages : ForeignPublish(msg)

SpecLiveOpen ==
    Init /\ [][NextLiveOpen]_vars /\ \A w \in Workers : WF_vars(WorkerStep(w))

----------------------------------------------------------------------------
(* Definitions used by the properties *)

Delta(rec) == IF rec.kind = "deposit" THEN rec.amt ELSE 0 - rec.amt

RECURSIVE SumCompleted(_, _)
SumCompleted(a, n) ==
    IF n = 0 THEN 0
    ELSE SumCompleted(a, n - 1)
         + (IF ledger[n].acc = a /\ ledger[n].status = "completed" THEN Delta(ledger[n]) ELSE 0)

\* the sum of the deltas of the completed ledger records of account a
CompletedSum(a) == SumCompleted(a, Len(ledger))

CompletedOf(a) ==
    {t \in DOMAIN ledger : ledger[t].acc = a /\ ledger[t].status = "completed"}

RECURSIVE SumAmounts(_)
SumAmounts(S) ==
    IF S = {} THEN 0
    ELSE LET c == CHOOSE x \in S : TRUE IN proc[c].amt + SumAmounts(S \ {c})

InsufficientText == <<"insufficient", "funds">>

\* ProcessTransaction (a client) or ProcessTransactionAsync (a worker) has returned
\* a completed transaction to its caller
ReturnedCompleted(p) ==
    /\ proc[p].result = "completed"
    /\ proc[p].pc = IF p \in Clients THEN "done" ELSE "w_settle"

\* the compensating AtomicBalanceUpdate of p has returned
Compensated(p) == proc[p].rb # "none"

\* p is inside ProcessTransactionAsync, past its pending guard
PastGuard(p) ==
    /\ p \in Workers
    /\ proc[p].pc \in {"abu_lock", "abu_commit", "pta_update", "pta_mark_failed"}

----------------------------------------------------------------------------
(* C1: in every reachable state each account's balance equals the sum of   *)
(* the deltas (+amount for a deposit, -amount for a withdraw) of its       *)
(* completed ledger records.  Stated as claimed; the code violates it.     *)
C1_BalanceIsCompletedSum ==
    \A a \in created : balance[a] = CompletedSum(a)

(* C2: no account balance is ever negative. *)
C2_BalanceNeverNegative ==
    \A a \in AccountIds : balance[a] >= 0

\* a withdraw was refused for insufficient funds on an account brought to zero by
\* a committed update
C2_Witness ==
    \E a \in created, p \in Procs :
        /\ balance[a] = 0
        /\ Len(abuLog[a]) > 0
        /\ proc[p].acc = a
        /\ Contains(proc[p].err, InsufficientText)

(* C3: once all concurrent ProcessTransaction deposits on one account have *)
(* returned successfully, the balance equals the starting balance plus the *)
(* sum of their amounts, and the ledger holds one distinct completed       *)
(* record per call.                                                        *)
AllDeposited(a) ==
    \A c \in Clients :
        ReturnedCompleted(c) /\ proc[c].kind = "deposit" /\ proc[c].acc = a

C3_NoLostDeposit ==
    \A a \in AccountIds :
        AllDeposited(a) =>
            /\ balance[a] = opening[a] + SumAmounts(Clients)
            /\ Cardinality(CompletedOf(a)) = Cardinality(Clients)
            /\ \A c, d \in Clients : c # d => proc[c].txn # proc[d].txn
            /\ \A c \in Clients : proc[c].txn \in CompletedOf(a)

\* both deposits returned, and the second one read the balance the first one wrote
C3_Witness ==
    \E a \in created :
        /\ AllDeposited(a)
        /\ \E c \in Clients : proc[c].seq = 2

(* C4: the successful AtomicBalanceUpdate calls on one account form a      *)
(* chain, each call's previousBalance being the newBalance of the call     *)
(* before it (the opening balance for the first), and between a call's     *)
(* read and its write no other call reads or writes the balance.           *)
C4_Serialized ==
    \A a \in AccountIds :
        /\ \A i \in 1..Len(abuLog[a]) :
              abuLog[a][i][1] = IF i = 1 THEN opening[a] ELSE abuLog[a][i - 1][2]
        /\ \A p \in Procs :
              (proc[p].pc = "abu_commit" /\ proc[p].acc = a) =>
                  /\ rowLock[a] = p
                  /\ proc[p].abuPrev = balance[a]
        /\ \A p, q \in Procs :
              (/\ proc[p].pc = "abu_commit" /\ proc[p].acc = a
               /\ proc[q].pc = "abu_commit" /\ proc[q].acc = a) => p = q

\* updates of the sync path and of a worker have both committed on one account
C4_Witness ==
    \E a \in created, c \in Clients, w \in Workers :
        /\ proc[c].seq > 0 /\ proc[c].acc = a
        /\ proc[w].seq > 0 /\ proc[w].acc = a
        /\ Len(abuLog[a]) >= 2

(* C5: when ProcessTransactionAsync runs twice concurrently for the same   *)
(* pending transaction, only one invocation gets past the pending guard    *)
(* (the other fails with the not-pending error and mutates nothing).       *)
(* Stated as claimed; the code violates it.                                *)
C5_OneInvocationPastGuard ==
    \A v, w \in Workers :
        (v # w /\ PastGuard(v) /\ PastGuard(w)) => proc[v].txn # proc[w].txn

C7_TerminalRecordsFrozen ==
    [][\A t \in DOMAIN ledger :
          ledger[t].status \in {"completed", "failed"} => ledger'[t] = ledger[t]]_vars

C9_BalanceEqualsReturned ==
    \A p \in Procs : ReturnedCompleted(p) => balance[proc[p].acc] = proc[p].new

(* C9, amended: when ProcessTransaction or ProcessTransactionAsync returns *)
(* a completed transaction, its newBalance is previousBalance plus or      *)
(* minus the amount, the call's balance update set the stored balance from *)
(* previousBalance to newBalance, and the stored balance still equals      *)
(* newBalance unless a later update on the account has committed.          *)
C9_ReturnedBalances ==
    \A p \in Procs :
        ReturnedCompleted(p) =>
            /\ proc[p].new = (IF proc[p].kind = "deposit"
                              THEN proc[p].prev + proc[p].amt
                              ELSE proc[p].prev - proc[p].amt)
            /\ proc[p].seq \in 1..Len(abuLog[proc[p].acc])
            /\ abuLog[proc[p].acc][proc[p].seq] = <<proc[p].prev, proc[p].new>>
            /\ Len(abuLog[proc[p].acc]) = proc[p].seq => balance[proc[p].acc] = proc[p].new

\* a worker and a client returned completed transactions on one account, the later
\* one still matching the stored balance
C9_Witness ==
    \E c \in Clients, w \in Workers :
        /\ ReturnedCompleted(c) /\ ReturnedCompleted(w)
        /\ proc[c].acc = proc[w].acc
        /\ \E p \in {c, w} : Len(abuLog[proc[p].acc]) = proc[p].seq

(* C10: a withdraw whose amount exceeds the account's current balance      *)
(* fails with an insufficient-funds error and leaves the balance as it     *)
(* was, in ProcessTransaction and in ProcessTransactionAsync.              *)
C10_InsufficientFundsNoChange ==
    [][\A p \in Procs :
          (/\ proc[p].pc = "abu_lock" /\ proc[p].phase = "fwd"
           /\ proc[p].kind = "withdraw"
           /\ proc[p].acc \in created
           /\ balance[proc[p].acc] < proc[p].amt
           /\ proc'[p] # proc[p])
          => /\ balance' = balance
             /\ proc'[p].result = "error" \/ proc'[p].pc = "pta_mark_failed"
             /\ proc'[p].pc \in {"done", "pta_mark_failed"}
             /\ faults' = faults => Contains(proc'[p].err, InsufficientText)]_vars

\* ProcessTransactionAsync returned insufficient funds for a withdraw larger than
\* the balance, and so did or could ProcessTransaction
C10_Witness ==
    \E w \in Workers :
        /\ proc[w].pc = "w_settle"
        /\ proc[w].kind = "withdraw"
        /\ Contains(proc[w].err, InsufficientText)
        /\ balance[proc[w].acc] < proc[w].amt
        /\ ledger[proc[w].txn].status = "failed"

(* C11: ProcessTransactionAsync called for a transaction whose record is   *)
(* not pending fails with the not-pending error and mutates nothing: no    *)
(* AtomicBalanceUpdate and no ledger write.                                *)
C11_NotPendingNoMutation ==
    [][\A w \in Workers :
          (/\ proc[w].pc = "pta_get"
           /\ proc[w].txn \in DOMAIN ledger
           /\ ledger[proc[w].txn].status # "pending"
           /\ proc'[w] # proc[w])
          => /\ proc'[w].pc = "w_settle"
             /\ proc'[w].result = "error"
             /\ proc'[w].seq = 0 /\ proc'[w].rb = "none"
             /\ faults' = faults => proc'[w].err = ErrNotPending
             /\ UNCHANGED <<balance, abuLog, rowLock, ledger>>]_vars

\* ProcessTransactionAsync has returned the not-pending error for a redelivered
\* message whose record is terminal
C11_Witness ==
    \E w \in Workers :
        /\ proc[w].pc = "w_settle"
        /\ proc[w].err = ErrNotPending
        /\ ledger[proc[w].txn].status \in {"completed", "failed"}
        /\ proc[w].seq = 0

(* C12: when ProcessTransactionAsync fails with a system error (an error    *)
(* outside the business list), the transaction record remains pending, so  *)
(* that the redelivered message can still complete it.  Stated as claimed; *)
(* the code violates it.                                                   *)
C12_SystemErrorKeepsPending ==
    \A w \in Workers :
        (/\ proc[w].pc = "w_settle"
         /\ proc[w].err # NoErr
         /\ ~isBusinessError(proc[w].err)
         /\ proc[w].txn \in DOMAIN ledger)
        => ledger[proc[w].txn].status = "pending"

(* C13: for every error returned by ProcessTransactionAsync that is not a  *)
(* business error the worker rejects the delivery with requeue and does    *)
(* not acknowledge it: the message goes back to the queue for another      *)
(* delivery (a delivery the broker has already requeued stays requeued).   *)
C13_SystemErrorRequeued ==
    [][\A w \in Workers :
          (/\ proc[w].pc = "w_settle"
           /\ proc[w].err # NoErr
           /\ ~isBusinessError(proc[w].err)
           /\ proc'[w] # proc[w])
          => IF unacked[w].lost
             THEN UNCHANGED <<queue, unacked>>
             ELSE /\ queue' = <<unacked[w]>> \o queue
                  /\ unacked' = [unacked EXCEPT ![w] = NoMsg]]_vars

\* a message is being processed again after its first attempt failed with a
\* database error and was rejected with requeue
C13_Witness ==
    \E w \in Workers :
        /\ connected
        /\ proc[w].pc = "pta_get"
        /\ ~unacked[w].lost
        /\ proc[w].txn \in DOMAIN ledger
        /\ ledger[proc[w].txn].status = "failed"
        /\ ledger[proc[w].txn].errmsg = ErrLockAccount

\* ProcessTransactionAsync has returned to worker w the error of one of the five
\* business causes: insufficient funds, invalid transaction type, account not
\* found, non-positive amount, transaction not pending
BusinessCause(w) ==
    /\ proc[w].pc = "w_settle"
    /\ proc[w].err # NoErr
    /\ \/ Contains(proc[w].err, ErrInsufficientFunds)
       \/ Contains(proc[w].err, ErrAccountNotFound)
       \/ proc[w].err = ErrNotPending
       \/ /\ proc[w].txn \in DOMAIN ledger
          /\ proc[w].err = validateTransactionRequest(proc[w].kind, proc[w].amt)

(* C14: for each business error produced by ProcessTransactionAsync        *)
(* (insufficient funds, invalid transaction type, account not found,       *)
(* non-positive amount, transaction not pending) the worker acknowledges   *)
(* the delivery and the message does not go back to the queue.  Stated as  *)
(* claimed; the code violates it for an invalid transaction type.          *)
C14_BusinessErrorsAcked ==
    [][\A w \in Workers :
          (BusinessCause(w) /\ ~unacked[w].lost /\ proc'[w] # proc[w])
          => /\ queue' = queue
             /\ unacked' = [unacked EXCEPT ![w] = NoMsg]]_vars

(* C15: a message naming a transaction id that has no ledger record is     *)
(* resolved without retry: ProcessTransactionAsync fails with not-found,   *)
(* nothing is mutated, and the worker does not requeue the message.        *)
(* Stated as claimed; the code violates it.                                *)
C15_UnknownTransactionNotRequeued ==
    [][\A w \in Workers :
          (/\ proc[w].pc \in {"pta_get", "w_settle"}
           /\ proc[w].txn \notin DOMAIN ledger
           /\ ~unacked[w].lost
           /\ proc'[w] # proc[w])
          => /\ UNCHANGED <<balance, abuLog, rowLock, ledger>>
             /\ proc[w].pc = "pta_get" => proc'[w].pc = "w_settle"
             /\ proc[w].pc = "w_settle" =>
                   /\ queue' = queue
                   /\ unacked' = [unacked EXCEPT ![w] = NoMsg]]_vars

(* C16: a message whose body cannot be decoded is rejected without         *)
(* requeue: it leaves the queue, no worker ever holds it as an unsettled   *)
(* delivery (so it is never requeued or redelivered), and its rejection    *)
(* reads and writes neither the balance store nor the ledger.              *)
C16_MalformedDropped ==
    [][/\ \A w \in Workers : unacked'[w].ok
       /\ (queue # <<>> /\ ~Head(queue).ok /\ Len(queue') = Len(queue) - 1)
          => /\ queue' = Tail(queue)
             /\ UNCHANGED <<balance, abuLog, rowLock, ledger, unacked, proc>>]_vars

\* a malformed message was published and is gone: the queue is empty again, no
\* delivery is unsettled and no goroutine has started anything
C16_Witness ==
    /\ asyncMode /\ connected
    /\ faults = MaxFaults
    /\ queue = <<>>
    /\ ledger = <<>>
    /\ \A w \in Workers : unacked[w] = NoMsg
    /\ \A p \in Procs : proc[p] = IdleProc

(* C17: if publishing the intent fails after the pending record was        *)
(* persisted, that record ends with status failed and the reason "Queue    *)
(* system unavailable", no message for it is on the queue, and the same    *)
(* request is then processed once through the synchronous path.  Stated as *)
(* claimed; the code violates it.                                          *)
C17_PublishFailureMarksFailed ==
    [][\A c \in Clients :
          (proc[c].pc = "h_mark_failed" /\ proc'[c] # proc[c])
          => /\ ledger'[proc[c].txn].status = "failed"
             /\ ledger'[proc[c].txn].errmsg = MsgQueueUnavailable
             /\ \A i \in DOMAIN queue' : queue'[i].id # proc[c].txn
             /\ \A w \in Workers : unacked'[w].id # proc[c].txn
             /\ proc'[c].pc = "abu_lock" /\ proc'[c].phase = "fwd"
             /\ proc'[c].acc = proc[c].acc
             /\ proc'[c].kind = proc[c].kind
             /\ proc'[c].amt = proc[c].amt
             /\ proc'[c].seq = 0
             /\ UNCHANGED <<balance, abuLog>>]_vars

(* C18: a submitted transaction takes the asynchronous path only when      *)
(* async mode is enabled and the queue connection is up at that moment; in *)
(* every other case it enters the synchronous path (or is rejected by      *)
(* validation).  On the asynchronous path no step up to the pending reply  *)
(* changes the account balance.                                            *)
C18_ModeSelection ==
    [][\A c \in Clients :
          /\ (proc[c].pc = "idle" /\ proc'[c].pc # "idle")
             => /\ proc'[c].pc = "h_get_account" => (asyncMode /\ connected)
                /\ ~(asyncMode /\ connected) =>
                      \/ proc'[c].pc = "abu_lock" /\ proc'[c].phase = "fwd"
                      \/ proc'[c].pc = "done" /\ proc'[c].result \in {"rejected", "error"}
          /\ (proc[c].pc \in {"h_get_account", "h_create_pending", "h_publish"}
              /\ proc'[c] # proc[c])
             => /\ UNCHANGED <<balance, abuLog, rowLock>>
                /\ proc'[c].seq = 0
                /\ proc'[c].result = "pending" =>
                      (proc[c].pc = "h_publish" /\ proc'[c].pc = "done")]_vars

\* one request was answered pending without any balance update on its account,
\* another entered the synchronous path after the connection was lost
C18_Witness ==
    \E c, d \in Clients :
        /\ proc[c].pc = "done" /\ proc[c].result = "pending"
        /\ abuLog[proc[c].acc] = <<>>
        /\ balance[proc[c].acc] = opening[proc[c].acc]
        /\ asyncMode /\ ~connected
        /\ proc[d].pc = "abu_lock" /\ proc[d].phase = "fwd"

(* C19: on the asynchronous submit path the intent is published only after *)
(* the pending record was persisted (a failed persist ends the request and *)
(* publishes nothing), and the caller is told the transaction is pending   *)
(* only by the step whose publish succeeded.                               *)
C19_SubmitOrder ==
    [][\A c \in Clients :
          /\ (proc[c].pc = "h_create_pending" /\ proc'[c] # proc[c])
             => /\ queue' = queue
                /\ IF ledger' = ledger
                   THEN proc'[c].pc = "done" /\ proc'[c].result = "error"
                   ELSE /\ proc'[c].pc = "h_publish"
                        /\ proc'[c].txn = Len(ledger')
                        /\ Len(ledger') = Len(ledger) + 1
                        /\ ledger'[Len(ledger')].status = "pending"
          /\ (proc[c].pc = "h_publish" /\ proc'[c] # proc[c])
             => /\ proc[c].txn \in DOMAIN ledger
                /\ ledger[proc[c].txn].acc = proc[c].acc
                /\ IF proc'[c].result = "pending"
                   THEN /\ connected
                        /\ Len(queue') = Len(queue) + 1
                        /\ queue'[Len(queue')].id = proc[c].txn
                        /\ queue'[Len(queue')].kind = ledger[proc[c].txn].kind
                        /\ queue'[Len(queue')].amt = ledger[proc[c].txn].amt
                   ELSE queue' = queue /\ proc'[c].pc = "h_mark_failed"
          /\ (proc'[c].result = "pending" /\ proc[c].result # "pending")
             => proc[c].pc = "h_publish"
          /\ \A i \in DOMAIN queue' : queue'[i].id \in DOMAIN ledger']_vars

\* one request was told pending with its message on the queue, another failed to
\* persist its pending record and published nothing
C19_Witness ==
    \E c, d \in Clients :
        /\ proc[c].pc = "done" /\ proc[c].result = "pending"
        /\ Len(queue) = 1 /\ queue[1].id = proc[c].txn
        /\ proc[d].pc = "done" /\ proc[d].result = "error" /\ proc[d].err = ErrInsert
        /\ proc[d].txn = NoTxn
        /\ Len(ledger) = 1

(* C20: ProcessTransaction with a kind other than deposit or withdraw, or   *)
(* with an amount <= 0, fails without calling the balance store or the     *)
(* ledger store: no balance changes and no record is written.              *)
C20_InvalidRequestNoStorage ==
    [][\A c \in Clients :
          (/\ proc'[c].pc # "idle"
           /\ proc'[c].kind \notin Kinds \/ proc'[c].amt <= 0)
          => /\ proc'[c].pc = "done"
             /\ proc'[c].result \in {"error", "rejected"}
             /\ proc'[c].result = "error" =>
                   proc'[c].err \in {ErrTypeInvalid, ErrAmountInvalid}
             /\ proc'[c].seq = 0 /\ proc'[c].txn = NoTxn /\ proc'[c].rb = "none"
             /\ proc[c].pc = "idle" =>
                   UNCHANGED <<balance, abuLog, rowLock, ledger, queue>>]_vars

\* ProcessTransaction has failed one request for its kind and another for its
\* amount
C20_Witness ==
    \E c, d \in Clients :
        /\ proc[c].pc = "done" /\ proc[c].result = "error"
        /\ proc[c].kind \notin Kinds /\ proc[c].err = ErrTypeInvalid
        /\ proc[d].pc = "done" /\ proc[d].result = "error"
        /\ proc[d].kind \in Kinds /\ proc[d].amt <= 0 /\ proc[d].err = ErrAmountInvalid
        /\ ledger = <<>>

(* C21: when AtomicBalanceUpdate fails inside ProcessTransaction, the call  *)
(* returns an error and no transaction, attempts no ledger write and       *)
(* issues no compensating balance update.                                  *)
C21_FailedUpdateStopsSync ==
    \A c \in Clients :
        /\ (proc[c].pc = "done" /\ proc[c].result = "error" /\ proc[c].seq = 0)
           => /\ proc[c].err # NoErr
              /\ proc[c].txn = NoTxn
              /\ proc[c].rb = "none" /\ proc[c].phase = "fwd"
        /\ proc[c].pc = "pt_create" => proc[c].seq > 0
        /\ proc[c].phase = "rb" => proc[c].seq > 0

\* ProcessTransaction has returned the insufficient-funds error to one caller and a
\* storage error of AtomicBalanceUpdate to another
C21_Witness ==
    \E c, d \in Clients :
        /\ proc[c].pc = "done" /\ proc[c].result = "error"
        /\ Contains(proc[c].err, ErrInsufficientFunds)
        /\ proc[d].pc = "done" /\ proc[d].result = "error"
        /\ Contains(proc[d].err, ErrLockAccount) \/ Contains(proc[d].err, ErrCommit)
        /\ proc[d].rb = "none"

\* ProcessTransactionAsync has returned to worker w the error of its failed
\* AtomicBalanceUpdate call
BalanceUpdateFailed(w) ==
    /\ proc[w].pc = "w_settle"
    /\ proc[w].seq = 0
    /\ Contains(proc[w].err, <<"failed", "to", "update", "balance">>)

(* C22: when AtomicBalanceUpdate fails inside ProcessTransactionAsync for a *)
(* pending record, the record is updated to failed with the error message, *)
(* the error is returned, the balance is unchanged and no compensating     *)
(* balance update is issued.  Stated as claimed; the code violates it.     *)
C22_FailedUpdateMarksFailed ==
    \A w \in Workers :
        BalanceUpdateFailed(w)
        => /\ ledger[proc[w].txn].status = "failed"
           /\ ledger[proc[w].txn].errmsg = proc[w].errmsg
           /\ proc[w].rb = "none" /\ proc[w].phase = "fwd"

(* C23: when the ledger update to completed fails inside                   *)
(* ProcessTransactionAsync after the balance was mutated, the call         *)
(* compensates the balance, the record ends with status failed and the     *)
(* reason "Failed to update transaction record", and the error is          *)
(* returned.  Stated as claimed; the code violates it.                     *)
C23_FailedLedgerUpdateCompensated ==
    \A w \in Workers :
        (proc[w].pc = "w_settle" /\ proc[w].seq > 0 /\ proc[w].result = "error")
        => /\ proc[w].rb = "ok"
           /\ ledger[proc[w].txn].status = "failed"
           /\ ledger[proc[w].txn].errmsg = MsgUpdateFailed
           /\ Contains(proc[w].err, ErrUpdate)

(* C24: when ProcessTransactionAsync is called for a pending record with   *)
(* an invalid kind or an amount <= 0, the record is updated to failed with *)
(* the validation error, the error is returned, and the account balance   *)
(* is not touched.  Stated as claimed; the code violates it.               *)
C24_InvalidAsyncMarksFailed ==
    [][\A w \in Workers :
          (/\ proc[w].pc = "pta_mark_failed"
           /\ proc[w].seq = 0 /\ proc[w].phase = "fwd"
           /\ proc[w].kind \notin Kinds \/ proc[w].amt <= 0
           /\ proc'[w] # proc[w])
          => /\ ledger'[proc[w].txn].status = "failed"
             /\ ledger'[proc[w].txn].errmsg = validateTransactionRequest(proc[w].kind, proc[w].amt)
             /\ proc'[w].pc = "w_settle"
             /\ proc'[w].err = validateTransactionRequest(proc[w].kind, proc[w].amt)
             /\ proc'[w].err # NoErr
             /\ UNCHANGED <<balance, abuLog, rowLock>>]_vars

(* C25: AtomicBalanceUpdate on an existing account returns                 *)
(* (previousBalance, previousBalance + amount) for a deposit and           *)
(* (previousBalance, previousBalance - amount) for a withdraw with         *)
(* previousBalance >= amount, and stores the returned new balance; a       *)
(* withdraw of exactly the whole balance succeeds and leaves 0.            *)
C25_AtomicBalanceUpdateResult ==
    [][\A p \in Procs :
          /\ (/\ proc[p].pc = "abu_lock"
              /\ proc[p].acc \in created
              /\ AbuKind(proc[p]) = "deposit"
                 \/ (AbuKind(proc[p]) = "withdraw" /\ balance[proc[p].acc] >= proc[p].amt)
              /\ faults' = faults
              /\ proc'[p] # proc[p])
             => /\ proc'[p].pc = "abu_commit"
                /\ proc'[p].abuPrev = balance[proc[p].acc]
                /\ proc'[p].abuNew =
                      IF AbuKind(proc[p]) = "deposit"
                      THEN balance[proc[p].acc] + proc[p].amt
                      ELSE balance[proc[p].acc] - proc[p].amt
          /\ (/\ proc[p].pc = "abu_commit"
              /\ faults' = faults
              /\ proc'[p] # proc[p])
             => /\ proc[p].abuPrev = balance[proc[p].acc]
                /\ balance' = [balance EXCEPT ![proc[p].acc] = proc[p].abuNew]
                /\ abuLog'[proc[p].acc] =
                      Append(abuLog[proc[p].acc], <<proc[p].abuPrev, proc[p].abuNew>>)
                /\ proc[p].phase = "fwd" =>
                      (proc'[p].prev = proc[p].abuPrev /\ proc'[p].new = proc[p].abuNew)]_vars

\* a withdraw of the whole balance has succeeded and left 0, after a deposit
C25_Witness ==
    \E p \in Procs, a \in created :
        /\ proc[p].acc = a /\ proc[p].phase = "fwd" /\ proc[p].kind = "withdraw"
        /\ proc[p].seq = Len(abuLog[a]) /\ proc[p].seq > 1
        /\ proc[p].prev = proc[p].amt /\ proc[p].new = 0
        /\ balance[a] = 0
        /\ abuLog[a][1][2] > abuLog[a][1][1]

(* C26: AtomicBalanceUpdate fails with the account-not-found error when    *)
(* the account does not exist and with the invalid-transaction-type error  *)
(* for a kind other than deposit and withdraw on an existing account; in   *)
(* both cases no balance changes.                                          *)
C26_AtomicBalanceUpdateRejects ==
    [][\A p \in Procs :
          (/\ proc[p].pc = "abu_lock" /\ proc[p].phase = "call"
           /\ proc'[p] # proc[p] /\ faults' = faults
           /\ (proc[p].acc \notin created \/ proc[p].kind \notin Kinds)) =>
              /\ proc'[p].pc = "done" /\ proc'[p].result = "error"
              /\ proc'[p].err = IF proc[p].acc \notin created
                                THEN ErrAccountNotFound ELSE ErrInvalidType
              /\ proc'[p].seq = 0
              /\ UNCHANGED <<balance, abuLog, rowLock>>]_vars

\* one call was refused for a missing account, a later one for its kind, and the
\* balance is the opening balance
C26_Witness ==
    \E c, d \in Clients, a \in created :
        /\ proc[c].pc = "done" /\ proc[c].err = ErrAccountNotFound /\ proc[c].acc = a
        /\ proc[d].pc = "done" /\ proc[d].err = ErrInvalidType /\ proc[d].acc = a
        /\ proc[d].amt > 0
        /\ opening[a] > 0 /\ balance[a] = opening[a] /\ abuLog[a] = <<>>

(* C27: AtomicBalanceUpdate is all-or-nothing.  When its UPDATE or COMMIT   *)
(* fails the balance is what the call read and stays so, and from a call's *)
(* SELECT ... FOR UPDATE to its commit or rollback no other call reads or  *)
(* writes the balance of that account.                                     *)
C27_AllOrNothing ==
    [][/\ \A p \in Procs :
             (proc[p].pc = "abu_commit" /\ proc'[p] # proc[p]) =>
                 /\ rowLock[proc[p].acc] = p
                 /\ rowLock'[proc[p].acc] = Free
                 /\ balance[proc[p].acc] = proc[p].abuPrev
                 /\ faults' # faults =>
                        /\ UNCHANGED <<balance, abuLog>>
                        /\ proc'[p].seq = proc[p].seq /\ proc'[p].rbseq = proc[p].rbseq
                 /\ \A a \in AccountIds \ {proc[p].acc} : balance'[a] = balance[a]
       /\ \A a \in AccountIds, q \in Procs :
             (rowLock[a] # Free /\ rowLock[a] # q) =>
                 /\ proc[q].pc = "abu_commit" => proc[q].acc # a
                 /\ (proc[q].pc = "abu_lock" /\ proc[q].acc = a /\ proc'[q] # proc[q]) =>
                        (faults' # faults /\ proc'[q].pc # "abu_commit")
                 /\ proc'[q] # proc[q] => balance'[a] = balance[a]]_vars

\* one call failed at its commit and left the balance as another call's commit
\* had made it
C27_Witness ==
    \E p, q \in Procs, a \in created :
        /\ p # q
        /\ proc[p].acc = a /\ Contains(proc[p].err, ErrCommit) /\ proc[p].seq = 0
        /\ proc[q].acc = a /\ proc[q].seq > 0
        /\ balance[a] = proc[q].new /\ balance[a] # opening[a]

\* worker w is inside ProcessTransactionAsync
InPta(w) ==
    proc[w].pc \in {"pta_get", "abu_lock", "abu_commit", "pta_update", "pta_mark_failed"}

(* C28: at any moment at most one worker is executing                      *)
(* ProcessTransactionAsync for a given transaction id, whatever the        *)
(* deliveries, requeues and redeliveries.  Stated as claimed; the code     *)
(* violates it when a delivery is redelivered while it is being processed. *)
C28_OneWorkerPerTransaction ==
    \A v, w \in Workers :
        (v # w /\ InPta(v) /\ InPta(w)) => proc[v].txn # proc[w].txn

(* C29: a worker holds at most one unsettled delivery: the broker sends a  *)
(* consumer no further message until the worker has acknowledged or        *)
(* rejected the one it holds (or the connection has closed and the broker  *)
(* has taken it back), and the message a worker is processing is the       *)
(* delivery it holds.                                                      *)
C29_OneUnsettledDelivery ==
    [][\A w \in Workers :
          /\ (unacked[w] # NoMsg /\ unacked'[w] # unacked[w]) =>
                 \/ /\ unacked'[w] = NoMsg
                    /\ \/ proc[w].pc = "w_settle" /\ proc'[w].pc = "idle"
                       \/ proc[w].pc = "idle" /\ ~Decodes(unacked[w])
                       \/ proc'[w].pc = "exited"
                 \/ /\ unacked'[w] = [unacked[w] EXCEPT !.lost = TRUE]
                    /\ connected /\ ~connected'
          /\ (InPta(w) \/ proc[w].pc = "w_settle") =>
                 (unacked[w] # NoMsg /\ unacked[w].id = proc[w].txn)]_vars

\* a worker is processing the delivery it holds while the next message waits on
\* the queue
C29_Witness ==
    \E w \in Workers :
        /\ InPta(w) /\ unacked[w].id = proc[w].txn
        /\ queue # <<>> /\ Head(queue).id # proc[w].txn
        /\ connected

(* C30: after the cancellation signal no worker takes a new message: a     *)
(* worker that is between messages stays there or stops.  Stated as        *)
(* claimed; the select in Start may still take a delivery.                 *)
C30_NoNewMessageAfterCancel ==
    [][\A w \in Workers :
          (cancelled /\ proc[w].pc = "idle") =>
              proc'[w].pc \in {"idle", "stopped", "exited"}]_vars

\* the ids the ledger can hold: every client submits at most one transaction
TxnIds == 1..Cardinality(Clients)

\* the handler has stored the pending record t and published its intent
Accepted(t) ==
    /\ t \in DOMAIN ledger
    /\ \E c \in Clients : proc[c].txn = t /\ proc[c].result = "pending"

(* C31: every transaction accepted on the asynchronous path (pending       *)
(* record stored, intent published) eventually has status completed or     *)
(* failed, while the workers keep running and the stores answer after      *)
(* finitely many faults.  Stated as claimed; the code violates it.         *)
C31_AcceptedEventuallyTerminal ==
    \A t \in TxnIds :
        Accepted(t) ~> (t \in DOMAIN ledger /\ ledger[t].status \in {"completed", "failed"})

\* the transaction ids a decodable message on the queue can name
MsgIds == TxnIds \cup {UnknownTxn}

\* a message naming transaction i is on the queue or held unsettled by a worker
InFlight(i) ==
    \/ \E k \in 1..Len(queue) : queue[k].ok /\ queue[k].id = i
    \/ \E w \in Workers : unacked[w] # NoMsg /\ unacked[w].id = i

C33_CreateAccountValidation ==
    [][\A c \in Clients :
          (proc[c].pc = "idle" /\ proc'[c].phase = "create") =>
              IF proc'[c].owner = "" \/ proc'[c].amt < 0
              THEN /\ proc'[c].result = "rejected"
                   /\ proc'[c].err = IF proc'[c].owner = "" THEN ErrOwnerRequired
                                                              ELSE ErrNegativeInitial
                   /\ UNCHANGED <<balance, created, opening, faults>>
              ELSE \/ /\ proc'[c].result = "created"
                      /\ proc'[c].acc \in created' \ created
                      /\ balance' = [balance EXCEPT ![proc'[c].acc] = proc'[c].amt]
                      /\ faults' = faults
                   \/ /\ proc'[c].result = "error"
                      /\ faults' # faults
                      /\ UNCHANGED <<balance, created>>]_vars

\* one request was rejected for its negative initial balance, then one with an
\* initial balance of zero created the account
C33_Witness ==
    \E c, d \in Clients, a \in created :
        /\ proc[c].phase = "create" /\ proc[c].result = "rejected"
        /\ proc[c].owner # "" /\ proc[c].amt < 0
        /\ proc[d].phase = "create" /\ proc[d].result = "created" /\ proc[d].acc = a
        /\ proc[d].amt = 0 /\ balance[a] = 0 /\ opening[a] = 0

\* the ledger records of account a
RecordsOf(a) == {t \in DOMAIN ledger : ledger[t].acc = a}

RECURSIVE SumDeltas(_)
SumDeltas(S) ==
    IF S = {} THEN 0
    ELSE LET t == CHOOSE x \in S : TRUE IN Delta(ledger[t]) + SumDeltas(S \ {t})

(* C34: when a worker stops at any point of ProcessTransactionAsync and    *)
(* the message is redelivered and processed again, the balance is changed  *)
(* by the transaction's delta at most once: on the asynchronous path the   *)
(* balance is the opening balance plus the deltas of some of the account's *)
(* ledger records, each counted once.  Stated as claimed; the code         *)
(* violates it.                                                            *)
C34_DeltaAtMostOnce ==
    asyncMode =>
        \A a \in created :
            \E S \in SUBSET RecordsOf(a) : balance[a] = opening[a] + SumDeltas(S)

\* worker w is about to acknowledge its delivery: processMessage calls Ack
AboutToAck(w) == proc[w].pc = "w_settle" /\ ~Requeues(proc[w].err)

(* C35: whenever a worker acknowledges a delivery, the ledger record of    *)
(* the transaction it names has status completed or failed, never pending, *)
(* also when the write that marks the record failed has itself failed.     *)
(* Stated as claimed; the code violates it.                                *)
C35_AckedRecordTerminal ==
    \A w \in Workers :
        (AboutToAck(w) /\ proc[w].txn \in DOMAIN ledger) =>
            ledger[proc[w].txn].status \in {"completed", "failed"}

\* client c is inside ProcessTransaction
InPt(c) == proc[c].pc \in {"abu_lock", "abu_commit", "pt_create"}

(* C36: ProcessTransaction writes at most one ledger record per call, with *)
(* status completed and only after its balance update succeeded; its other *)
(* steps write nothing to the ledger, and a failed call has no record.      *)
C36_SyncWritesOneCompletedRecord ==
    [][\A c \in Clients :
          /\ (InPt(c) /\ proc'[c] # proc[c]) =>
                 IF proc[c].pc = "pt_create" /\ proc'[c].result = "completed"
                 THEN /\ Len(ledger') = Len(ledger) + 1
                      /\ SubSeq(ledger', 1, Len(ledger)) = ledger
                      /\ ledger'[Len(ledger')].status = "completed"
                      /\ ledger'[Len(ledger')].acc = proc[c].acc
                      /\ proc'[c].txn = Len(ledger')
                      /\ proc[c].seq > 0 /\ proc[c].phase = "fwd"
                      /\ proc'[c].pc = "done"
                 ELSE ledger' = ledger
          /\ (proc[c].pc = "done" /\ proc[c].result = "error") => proc[c].txn = NoTxn]_vars

\* one call stored its completed record, another failed to store its record after
\* a successful balance update and left none
C36_Witness ==
    \E c, d \in Clients :
        /\ ~asyncMode
        /\ proc[c].pc = "done" /\ proc[c].result = "completed"
        /\ ledger[proc[c].txn].status = "completed"
        /\ proc[d].pc = "done" /\ proc[d].result = "error" /\ proc[d].seq > 0
        /\ Len(ledger) = 1

(* C37: on the asynchronous submit path a request for an account that     *)
(* does not exist, or a withdraw larger than the balance read at submit    *)
(* time, is rejected before queueing: no pending record is created, no     *)
(* intent is published and the balance is unchanged.                       *)
C37_RejectedBeforeQueueing ==
    [][\A c \in Clients :
          (/\ proc[c].pc = "h_get_account" /\ proc'[c] # proc[c]
           /\ \/ proc[c].acc \notin created
              \/ proc[c].kind = "withdraw" /\ balance[proc[c].acc] < proc[c].amt) =>
              /\ proc'[c].pc = "done" /\ proc'[c].result = "rejected"
              /\ proc'[c].err # NoErr /\ proc'[c].txn = NoTxn
              /\ UNCHANGED <<ledger, queue, unacked, balance, abuLog, rowLock>>]_vars

\* one request was rejected for a missing account and a later withdraw for its
\* amount; the ledger and the queue are empty
C37_Witness ==
    \E c, d \in Clients, a \in created :
        /\ proc[c].result = "rejected" /\ proc[c].err = ErrAccountNotFound /\ proc[c].acc = a
        /\ proc[d].result = "rejected" /\ proc[d].err = <<"insufficient", "funds">>
        /\ proc[d].acc = a /\ proc[d].kind = "withdraw" /\ proc[d].amt > balance[a]
        /\ balance[a] = opening[a] /\ opening[a] > 0
        /\ ledger = <<>> /\ queue = <<>>

(* C38: a worker settles every delivery it takes exactly once before it   *)
(* takes the next: it returns to its receive loop only from the end of     *)
(* processMessage, where the delivery is acknowledged (the queue is left   *)
(* alone) or rejected with requeue (the delivery is back at the head), and *)
(* it takes a delivery only while it holds no other to process.            *)
C38_SettledExactlyOnce ==
    [][\A w \in Workers :
          /\ (proc[w].pc \notin {"idle", "stopped"} /\ proc'[w].pc = "idle") =>
                 /\ proc[w].pc = "w_settle"
                 /\ \/ /\ unacked[w].lost
                       /\ UNCHANGED <<queue, unacked>>
                    \/ /\ ~unacked[w].lost /\ unacked[w] # NoMsg
                       /\ unacked'[w] = NoMsg
                       /\ queue' = IF proc[w].result = "completed" \/ isBusinessError(proc[w].err)
                                   THEN queue ELSE <<unacked[w]>> \o queue
          /\ (proc[w].pc = "idle" /\ proc'[w].pc = "pta_get") =>
                 /\ unacked[w] # NoMsg /\ ~unacked[w].lost
                 /\ unacked'[w] = unacked[w]
                 /\ proc'[w].txn = unacked[w].id]_vars

\* two deliveries were taken and settled, one completed and one failed, and
\* nothing is left on the queue or unsettled
C38_Witness ==
    /\ asyncMode /\ connected
    /\ Len(ledger) = 2
    /\ ledger[1].status = "completed" /\ ledger[2].status = "failed"
    /\ queue = <<>>
    /\ \A w \in Workers : unacked[w] = NoMsg /\ proc[w].pc = "idle"

(* C39: the balance delta ProcessTransactionAsync applies is the one of    *)
(* the stored pending record (its kind and amount), also when the message  *)
(* carries another kind or amount, so that a completed record describes    *)
(* the update that was applied.  Stated as claimed; the code violates it.  *)
C39_AppliedDeltaIsRecorded ==
    /\ \A w \in Workers :
          (proc[w].pc \in {"abu_commit", "pta_update"} /\ proc[w].phase = "fwd") =>
              /\ proc[w].kind = ledger[proc[w].txn].kind
              /\ proc[w].amt = ledger[proc[w].txn].amt
    /\ \A t \in DOMAIN ledger :
          ledger[t].status = "completed" => ledger[t].new = ledger[t].prev + Delta(ledger[t])

(* C40: a transaction on one account (success, failure or compensation,   *)
(* sync or async) never changes the balance of another account nor the     *)
(* ledger record of another transaction: a step of a request or of a       *)
(* worker changes at most the balance of its own account and at most its   *)
(* own record.                                                             *)
C40_OtherAccountsUntouched ==
    [][\A p \in Procs :
          proc'[p] # proc[p] =>
              /\ \A b \in AllAccounts :
                    balance'[b] # balance[b] =>
                        /\ b = proc[p].acc
                        /\ proc[p].txn \in DOMAIN ledger => ledger[proc[p].txn].acc = b
              /\ \A b \in AllAccounts :
                    abuLog'[b] # abuLog[b] => b = proc[p].acc
              /\ \A t \in DOMAIN ledger :
                    ledger'[t] # ledger[t] => t = proc[p].txn]_vars

\* an async transaction on one account is completed and has changed its balance
\* while the record of a transaction on the other account is still pending and
\* that account has its opening balance
C40_Witness ==
    \E a, b \in created, s, t \in DOMAIN ledger :
        /\ a # b
        /\ ledger[s].acc = a /\ ledger[s].status = "completed"
        /\ ledger[s].new # ledger[s].prev /\ balance[a] = ledger[s].new
        /\ ledger[t].acc = b /\ ledger[t].status = "pending"
        /\ balance[b] = opening[b] /\ abuLog[b] = <<>>

====
